---- MODULE Spec2Model ----
(***************************************************************************)
(* Model of chatbox-modelscope-sync-mcp: the name resolver, the catalog    *)
(* filter, the sync run (load, merge, backup, save) and the export of      *)
(* src/chatbox_modelscope_sync_mcp/sync.py, driven by main() of cli.py.    *)
(*                                                                         *)
(* Strings are sequences of one-character strings.  A JSON value is a      *)
(* tagged record: an absent key, null, a string, an object or a list.      *)
(***************************************************************************)
EXTENDS Integers, Sequences, FiniteSets, TLC

VARIABLES
    service,        \* SpecName: the remote record handed to get_server_name
    resolved,       \* SpecName: what get_server_name returned for it
    mcp_servers,    \* SpecExport: the mcpServers mapping of the export
    api_response,   \* the payload returned by call_modelscope_api
    valid_servers,  \* the result of filter_valid_servers
    pc,             \* where the sync run stands
    runs,           \* how many runs of the command have been started
    api_key,        \* whether a token or MODELSCOPE_API_KEY is available
    backup,         \* sync(backup=...): False under --no-backup
    disk,           \* the registry file at config_path
    bak,            \* the file at config_path + ".bak"
    disk0,          \* the registry file as it was when the run started
    bak0,           \* the backup file as it was when the run started
    config,         \* config['settings']['mcp']['servers'] in memory
    backed_up,      \* what backup_config returned in this run, if called
    updated_count,
    added_count,
    result          \* how the last run ended

\* the variables a sync run never touches
name_vars == <<service, resolved, mcp_servers>>
sync_vars == <<pc, runs, api_key, backup, disk, bak, disk0, bak0, config,
               backed_up, updated_count, added_count, result>>
vars == <<service, resolved, mcp_servers, api_response, valid_servers, pc, runs, api_key,
          backup, disk, bak, disk0, bak0, config, backed_up, updated_count,
          added_count, result>>

----------------------------------------------------------------------------
(* Bounds *)

\* longest id string of a remote record in SpecName
MaxIdLen == 4

\* most entries of a raw catalog in SpecFilter
MaxRaw == 2

\* most entries of the remote catalog of a sync run
MaxCatalog == 2

\* most servers in the registry file before the first run
MaxServers == 2

\* most runs of the command in one behaviour
MaxRuns == 1

\* most entries of the remote catalog of an export
MaxExport == 2

----------------------------------------------------------------------------
(* JSON values *)

Absent == [tag |-> "absent", val |-> <<>>]
Null == [tag |-> "null", val |-> <<>>]
Str(s) == [tag |-> "str", val |-> s]
Obj(fields) == [tag |-> "obj", val |-> fields]
List(items) == [tag |-> "list", val |-> items]

\* dict.get(key, default): the default only replaces a missing key, not a null
Get(field, default) == IF field.tag = "absent" THEN default ELSE field

\* function results: a returned string, a returned None, a raised exception
RetNone == [tag |-> "none", val |-> <<>>]
Raise == [tag |-> "raise", val |-> <<>>]

----------------------------------------------------------------------------
(* str methods *)

Whitespace == {" "}

RECURSIVE LStrip(_)
LStrip(s) ==
    IF s = <<>> THEN s
    ELSE IF Head(s) \in Whitespace THEN LStrip(Tail(s)) ELSE s

RECURSIVE RStrip(_)
RStrip(s) ==
    IF s = <<>> THEN s
    ELSE IF s[Len(s)] \in Whitespace THEN RStrip(SubSeq(s, 1, Len(s) - 1)) ELSE s

\* str.strip()
Strip(s) == RStrip(LStrip(s))

\* str.replace(old, new) for a one-character old
RECURSIVE Replace(_, _, _)
Replace(s, old, new) ==
    IF s = <<>> THEN s
    ELSE (IF Head(s) = old THEN new ELSE <<Head(s)>>) \o Replace(Tail(s), old, new)

----------------------------------------------------------------------------
(* get_server_name *)

\* service.get(key, '').strip(): raises on a null value
GetStripped(field) ==
    LET v == Get(field, Str(<<>>)) IN
    IF v.tag = "str" THEN Str(Strip(v.val)) ELSE Raise

\* the loop over ['zh', 'en']: the name found, an exception, or RetNone when
\* the loop falls through
RECURSIVE LocaleName(_, _)
LocaleName(locales, langs) ==
    IF langs = <<>> THEN RetNone
    ELSE LET entry == locales[Head(langs)] IN
         IF entry.tag = "absent" THEN LocaleName(locales, Tail(langs))
         ELSE IF entry.tag # "obj" THEN Raise
         ELSE LET name == GetStripped(entry.val.name) IN
              IF name.tag = "raise" THEN Raise
              ELSE IF name.val # <<>> THEN name
              ELSE LocaleName(locales, Tail(langs))

NoLocales == [zh |-> Absent, en |-> Absent]

IdToName(sid) == Replace(Replace(sid, "@", <<>>), "/", <<"-">>)

NameFromId(service_) ==
    LET server_id == GetStripped(service_.id) IN
    IF server_id.tag = "raise" THEN Raise
    ELSE IF server_id.val # <<>> THEN Str(IdToName(server_id.val))
    ELSE RetNone

NameFromName(service_) ==
    LET name == GetStripped(service_.name) IN
    IF name.tag = "raise" THEN Raise
    ELSE IF name.val # <<>> THEN name
    ELSE NameFromId(service_)

\* mutant: the fallback locale is tried before the primary one
NameFromLocalesEnFirst(service_) ==
    LET locales == Get(service_.locales, Obj(NoLocales)) IN
    IF locales.tag # "obj" THEN Raise
    ELSE LET name == LocaleName(locales.val, <<"en", "zh">>) IN
         IF name.tag = "none" THEN NameFromName(service_) ELSE name

NameFromLocales(service_) ==
    LET locales == Get(service_.locales, Obj(NoLocales)) IN
    IF locales.tag # "obj" THEN Raise
    ELSE LET name == LocaleName(locales.val, <<"zh", "en">>) IN
         IF name.tag = "none" THEN NameFromName(service_) ELSE name

get_server_name(service_) ==
    LET name == GetStripped(service_.chinese_name) IN
    IF name.tag = "raise" THEN Raise
    ELSE IF name.val # <<>> THEN name
    ELSE NameFromLocales(service_)

----------------------------------------------------------------------------
(* Files *)

NoFile == [kind |-> "absent", servers |-> <<>>]
\* a registry file that is not valid JSON
Garbled == [kind |-> "malformed", servers |-> <<>>]
\* a complete JSON document with these servers
JsonFile(servers) == [kind |-> "json", servers |-> servers]
\* a file opened for writing and not written to its end
PartialFile(prefix) == [kind |-> "partial", servers |-> prefix]
\* a backup left by some earlier use
StaleFile == [kind |-> "stale", servers |-> <<>>]

\* the variables of a sync run while no sync run is modelled
NoSync ==
    /\ pc = "idle"
    /\ runs = 0
    /\ api_key = FALSE
    /\ backup = FALSE
    /\ disk = NoFile
    /\ bak = NoFile
    /\ disk0 = NoFile
    /\ bak0 = NoFile
    /\ config = <<>>
    /\ backed_up = "not_called"
    /\ updated_count = 0
    /\ added_count = 0
    /\ result = "none"

----------------------------------------------------------------------------
(* SpecName: get_server_name applied to one remote record *)

RECURSIVE StringsUpTo(_, _)
StringsUpTo(alphabet, n) ==
    IF n = 0 THEN {<<>>}
    ELSE LET shorter == StringsUpTo(alphabet, n - 1) IN
         shorter \cup {<<c>> \o s : c \in alphabet, s \in {t \in shorter : Len(t) = n - 1}}

IdChars == {"a", " ", "@", "/"}

NameFieldValues(c) ==
    {Absent, Null, Str(<<>>), Str(<<" ">>), Str(<<" ", c>>)}

LocaleValues(c) ==
    {Absent, Null} \cup {Obj([name |-> n]) : n \in NameFieldValues(c) \ {Str(<<>>)}}

LocalesValues ==
    {Absent, Null} \cup {Obj([zh |-> z, en |-> e]) : z \in LocaleValues("z"), e \in LocaleValues("e")}

IdValues == {Absent, Null} \cup {Str(s) : s \in StringsUpTo(IdChars, MaxIdLen)}

NoUrls == Absent

NameServices ==
    [chinese_name : NameFieldValues("c"),
     locales : LocalesValues,
     name : NameFieldValues("n"),
     id : IdValues,
     operational_urls : {NoUrls}]

NoService == [chinese_name |-> Absent, locales |-> Absent, name |-> Absent,
              id |-> Absent, operational_urls |-> NoUrls]

Pending == [tag |-> "pending", val |-> <<>>]

\* no mcp_servers dict has been built
NotExported == [tag |-> "pending", val |-> <<>>]

InitName ==
    /\ service \in NameServices
    /\ resolved = Pending
    /\ mcp_servers = NotExported
    /\ api_response = Absent
    /\ valid_servers = Pending
    /\ NoSync

ResolveName ==
    /\ resolved = Pending
    /\ resolved' = get_server_name(service)
    /\ UNCHANGED <<service, mcp_servers, api_response, valid_servers, sync_vars>>

NextName == ResolveName

SpecName == InitName /\ [][NextName]_vars

----------------------------------------------------------------------------
(* Claims about get_server_name (SpecName) *)

\* the text of a field as the priority chain reads it: nothing when the field
\* is absent or null
FieldText(f) == IF f.tag = "str" THEN f.val ELSE <<>>

LocaleText(service_, lang) ==
    IF service_.locales.tag = "obj" /\ service_.locales.val[lang].tag = "obj"
    THEN FieldText(service_.locales.val[lang].val.name)
    ELSE <<>>

\* [chinese_name, locales.zh.name, locales.en.name, name,
\*  id with '@' removed and '/' replaced by '-']
NameChain(service_) ==
    <<FieldText(service_.chinese_name),
      LocaleText(service_, "zh"),
      LocaleText(service_, "en"),
      FieldText(service_.name),
      Replace(Replace(FieldText(service_.id), "@", <<>>), "/", <<"-">>)>>

\* the first position of the chain that is non-empty after trimming, 0 if none
FirstNonEmpty(chain) ==
    LET idx == {i \in 1..Len(chain) : Strip(chain[i]) # <<>>} IN
    IF idx = {} THEN 0 ELSE CHOOSE i \in idx : \A j \in idx : i <= j

HasNull(service_) ==
    \/ Null \in {service_.chinese_name, service_.locales, service_.name, service_.id}
    \/ /\ service_.locales.tag = "obj"
       /\ \E lang \in {"zh", "en"} :
             \/ service_.locales.val[lang] = Null
             \/ /\ service_.locales.val[lang].tag = "obj"
                /\ service_.locales.val[lang].val.name = Null

NameTotal ==
    resolved # Pending =>
        /\ resolved.tag \in {"none", "str"}
        /\ resolved.tag = "str" => resolved.val # <<>>
        /\ resolved.tag = "none" <=> FirstNonEmpty(NameChain(service)) = 0

----------------------------------------------------------------------------
(* filter_valid_servers *)

Unknown == <<"u", "n", "k", "n", "o", "w", "n">>

\* service.get('id', 'unknown'): the default only replaces a missing key
RecordId(service_) == Get(service_.id, Str(Unknown))

\* Python truthiness of a JSON value: None, '' and [] are falsy
Truthy(v) == v.tag \notin {"absent", "null"} /\ v.val # <<>>

\* the body of the loop for one service: the records already collected
\* followed by the record of this service if it is valid
FilterOne(acc, service_) ==
    LET name == get_server_name(service_)
        urls == Get(service_.operational_urls, List(<<>>))
    IN  IF name.tag = "raise" THEN Raise
        ELSE IF ~Truthy(name) THEN acc
        ELSE IF ~Truthy(urls) THEN acc
        ELSE LET url == urls.val[1].url IN
             IF ~Truthy(url) THEN acc
             ELSE List(Append(acc.val, [name |-> name.val, url |-> url.val,
                                        id |-> RecordId(service_)]))

RECURSIVE FilterLoop(_, _)
FilterLoop(acc, services) ==
    IF acc.tag = "raise" \/ services = <<>> THEN acc
    ELSE FilterLoop(FilterOne(acc, Head(services)), Tail(services))

\* api_response is Absent when the payload has no Data.Result container
filter_valid_servers(response) ==
    IF response.tag # "list" THEN List(<<>>)
    ELSE FilterLoop(List(<<>>), response.val)

----------------------------------------------------------------------------
(* SpecFilter: filter_valid_servers applied to one raw catalog *)

SeqsUpTo(S, n) == UNION {[1..k -> S] : k \in 0..n}

Endpoint(u) == [url |-> u]

UrlX == <<"x">>
UrlY == <<"y">>

FilterUrlLists ==
    {Absent, List(<<>>),
     List(<<Endpoint(Str(UrlX))>>),
     List(<<Endpoint(Str(UrlX)), Endpoint(Str(UrlY))>>),
     List(<<Endpoint(Absent), Endpoint(Str(UrlY))>>),
     List(<<Endpoint(Str(<<>>)), Endpoint(Str(UrlY))>>)}

FilterServices ==
    [chinese_name : {Absent, Str(<<"c">>)},
     locales : {Absent},
     name : {Absent},
     id : {Absent, Str(<<>>), Str(<<"@", "i">>)},
     operational_urls : FilterUrlLists]

FilterResponses == {Absent} \cup {List(s) : s \in SeqsUpTo(FilterServices, MaxRaw)}

InitFilter ==
    /\ service = NoService
    /\ resolved = Pending
    /\ mcp_servers = NotExported
    /\ api_response \in FilterResponses
    /\ valid_servers = Pending
    /\ NoSync

FilterCatalog ==
    /\ valid_servers = Pending
    /\ valid_servers' = filter_valid_servers(api_response)
    /\ UNCHANGED <<service, resolved, mcp_servers, api_response, sync_vars>>

NextFilter == FilterCatalog

SpecFilter == InitFilter /\ [][NextFilter]_vars

----------------------------------------------------------------------------
(* Claims about filter_valid_servers (SpecFilter) *)

\* the entry's id, or "unknown" when the entry has no id or an empty one
ClaimedId(service_) ==
    IF service_.id.tag = "str" /\ service_.id.val # <<>> THEN service_.id
    ELSE Str(Unknown)

ClaimedValid(service_) ==
    /\ get_server_name(service_).tag = "str"
    /\ service_.operational_urls.tag = "list"
    /\ service_.operational_urls.val # <<>>
    /\ service_.operational_urls.val[1].url.tag = "str"
    /\ service_.operational_urls.val[1].url.val # <<>>

RECURSIVE ClaimedRecords(_)
ClaimedRecords(services) ==
    IF services = <<>> THEN <<>>
    ELSE LET s == Head(services) IN
         (IF ClaimedValid(s)
          THEN <<[name |-> get_server_name(s).val,
                  url |-> s.operational_urls.val[1].url.val,
                  id |-> ClaimedId(s)]>>
          ELSE <<>>) \o ClaimedRecords(Tail(services))

\* C10: filter_valid_servers returns, in input order and without
\* deduplication, one record per raw entry whose resolved name is non-null,
\* whose operational_urls is present and non-empty and whose first endpoint
\* has a non-empty url; each record is {id: the entry's id, or "unknown" when
\* the entry has no id or an empty one; name; url of the first endpoint}.
FilterResult ==
    valid_servers # Pending =>
        valid_servers =
            List(IF api_response.tag = "list" THEN ClaimedRecords(api_response.val) ELSE <<>>)

----------------------------------------------------------------------------
(* The registry and the merge of sync() *)

NoTransport == [type |-> "none", url |-> <<>>]
Http(u) == [type |-> "http", url |-> u]
Sse(u) == [type |-> "sse", url |-> u]

IsHttp(s) == s.transport.type = "http"

\* mutant: the index is built over every entry that has a transport URL
existing_urls_any_type(servers) ==
    LET has(i) == servers[i].transport.type # "none"
        urls == {servers[i].transport.url : i \in {j \in 1..Len(servers) : has(j)}}
    IN  [u \in urls |->
            CHOOSE i \in 1..Len(servers) :
                /\ has(i) /\ servers[i].transport.url = u
                /\ \A j \in 1..Len(servers) :
                       (has(j) /\ servers[j].transport.url = u) => j <= i]

\* {s['transport']['url']: s for s in servers if ... == 'http'}: the position
\* of the entry each http URL maps to; a later entry replaces an earlier one
existing_urls(servers) ==
    LET urls == {servers[i].transport.url : i \in {j \in 1..Len(servers) : IsHttp(servers[j])}} IN
    [u \in urls |->
        CHOOSE i \in 1..Len(servers) :
            /\ IsHttp(servers[i]) /\ servers[i].transport.url = u
            /\ \A j \in 1..Len(servers) :
                   (IsHttp(servers[j]) /\ servers[j].transport.url = u) => j <= i]

\* str(uuid.uuid4()): an id no entry of the list carries
FreshId(servers) ==
    CHOOSE n \in 1..(Len(servers) + 1) : \A i \in 1..Len(servers) : servers[i].id # n

new_server(servers, name, url) ==
    [id |-> FreshId(servers), name |-> name, enabled |-> TRUE, transport |-> Http(url)]

\* mutant: a differing name is counted but not stored
MergeStepNoWrite(st, server_info) ==
    LET url == server_info.url
        name == server_info.name
    IN  IF url \in DOMAIN st.index
        THEN LET pos == st.index[url] IN
             IF st.servers[pos].name # name
             THEN [st EXCEPT !.updated = @ + 1]
             ELSE st
        ELSE [st EXCEPT !.servers = Append(@, new_server(@, name, url)),
                        !.added = @ + 1]

\* mutant: a record whose URL is indexed is counted even if the name is equal
MergeStepCountsEqual(st, server_info) ==
    LET url == server_info.url
        name == server_info.name
    IN  IF url \in DOMAIN st.index
        THEN LET pos == st.index[url] IN
             [st EXCEPT !.servers[pos].name = name, !.updated = @ + 1]
        ELSE [st EXCEPT !.servers = Append(@, new_server(@, name, url)),
                        !.added = @ + 1]

\* one pass of the loop body for server_info, on
\* st = [servers, index, updated, added]
MergeStep(st, server_info) ==
    LET url == server_info.url
        name == server_info.name
    IN  IF url \in DOMAIN st.index
        THEN LET pos == st.index[url] IN
             IF st.servers[pos].name # name
             THEN [st EXCEPT !.servers[pos].name = name, !.updated = @ + 1]
             ELSE st
        ELSE [st EXCEPT !.servers = Append(@, new_server(@, name, url)),
                        !.added = @ + 1]

RECURSIVE MergeLoop(_, _)
MergeLoop(st, records) ==
    IF records = <<>> THEN st
    ELSE MergeLoop(MergeStep(st, Head(records)), Tail(records))

\* lines 384-414: the index is built once, before the loop
Merge(servers, records) ==
    MergeLoop([servers |-> servers, index |-> existing_urls(servers),
               updated |-> 0, added |-> 0], records)

----------------------------------------------------------------------------
(* Spec: runs of the sync command *)

Old == <<"O">>
New == <<"N">>
Fresh == <<"F">>

RemoteService(name, url) ==
    [chinese_name |-> Absent, locales |-> Absent, name |-> Str(name),
     id |-> Str(<<"@", "i">>), operational_urls |-> List(<<Endpoint(Str(url))>>)]

\* the remote records of a sync run: valid ones and one without endpoints
SyncServices ==
    {RemoteService(New, UrlX), RemoteService(Fresh, UrlX), RemoteService(Fresh, UrlY),
     [RemoteService(New, UrlY) EXCEPT !.operational_urls = List(<<>>)]}

SyncResponses == {Absent} \cup {List(s) : s \in SeqsUpTo(SyncServices, MaxCatalog)}

\* the entries a registry holds before the first run, without their ids
EntryShapes ==
    {[name |-> Old, enabled |-> FALSE, transport |-> Http(UrlX)],
     [name |-> New, enabled |-> TRUE, transport |-> Http(UrlX)],
     [name |-> Old, enabled |-> FALSE, transport |-> Sse(UrlX)],
     [name |-> Old, enabled |-> TRUE, transport |-> NoTransport]}

WithIds(shapes) ==
    [i \in 1..Len(shapes) |->
        [id |-> i, name |-> shapes[i].name, enabled |-> shapes[i].enabled,
         transport |-> shapes[i].transport]]

\* no two http entries share a URL
UrlUnique(servers) ==
    \A i, j \in 1..Len(servers) :
        (IsHttp(servers[i]) /\ IsHttp(servers[j])
            /\ servers[i].transport.url = servers[j].transport.url) => i = j

\* the registries the first run can find: the application keeps one entry
\* per http URL
InitialRegistries ==
    {r \in {WithIds(sh) : sh \in SeqsUpTo(EntryShapes, MaxServers)} : UrlUnique(r)}

Init ==
    /\ service = NoService
    /\ resolved = Pending
    /\ mcp_servers = NotExported
    /\ api_response = Absent
    /\ valid_servers = Pending
    /\ pc = "idle"
    /\ runs = 0
    /\ api_key = FALSE
    /\ backup = FALSE
    /\ disk \in {NoFile, Garbled} \cup {JsonFile(r) : r \in InitialRegistries}
    /\ bak \in {NoFile, StaleFile}
    /\ disk0 = disk
    /\ bak0 = bak
    /\ config = <<>>
    /\ backed_up = "not_called"
    /\ updated_count = 0
    /\ added_count = 0
    /\ result = "none"

\* the process ends: its memory is gone, the files and the outcome remain
Exit(outcome) ==
    /\ pc' = "done"
    /\ result' = outcome
    /\ api_response' = Absent
    /\ valid_servers' = Pending
    /\ config' = <<>>
    /\ updated_count' = 0
    /\ added_count' = 0
    /\ UNCHANGED <<name_vars, runs, api_key, backup, disk0, bak0, backed_up>>

\* main(): a new run of the command, with or without a token, with or
\* without --no-backup
StartRun ==
    /\ pc \in {"idle", "done"}
    /\ runs < MaxRuns
    /\ runs' = runs + 1
    /\ api_key' \in BOOLEAN
    /\ backup' \in BOOLEAN
    /\ pc' = "api"
    /\ result' = "none"
    /\ disk0' = disk
    /\ bak0' = bak
    /\ backed_up' = "not_called"
    /\ UNCHANGED <<name_vars, api_response, valid_servers, disk, bak, config,
                   updated_count, added_count>>

\* call_modelscope_api without a key: ValueError, caught by main()
ApiNoKey ==
    /\ pc = "api"
    /\ ~api_key
    /\ Exit("no_credential")
    /\ UNCHANGED <<disk, bak>>

\* requests.get fails, times out or answers non-2xx: RuntimeError
ApiTransportError ==
    /\ pc = "api"
    /\ api_key
    /\ Exit("transport_error")
    /\ UNCHANGED <<disk, bak>>

ApiResponse ==
    /\ pc = "api"
    /\ api_key
    /\ api_response' \in SyncResponses
    /\ pc' = "load"
    /\ UNCHANGED <<name_vars, valid_servers, runs, api_key, backup, disk, bak,
                   disk0, bak0, config, backed_up, updated_count, added_count, result>>

\* mutant: the bootstrap registry is written to the missing file at once
LoadConfigCreatesFile ==
    /\ pc = "load"
    /\ disk.kind \in {"json", "absent"}
    /\ config' = disk.servers
    /\ disk' = JsonFile(disk.servers)
    /\ pc' = "filter"
    /\ UNCHANGED <<name_vars, api_response, valid_servers, runs, api_key, backup,
                   bak, disk0, bak0, backed_up, updated_count, added_count, result>>

\* load_config: the parsed file, or the bootstrap registry if there is none
LoadConfig ==
    /\ pc = "load"
    /\ disk.kind \in {"json", "absent"}
    /\ config' = disk.servers
    /\ pc' = "filter"
    /\ UNCHANGED <<name_vars, api_response, valid_servers, runs, api_key, backup,
                   disk, bak, disk0, bak0, backed_up, updated_count, added_count,
                   result>>

\* load_config: json.JSONDecodeError becomes ValueError
LoadConfigMalformed ==
    /\ pc = "load"
    /\ disk.kind \in {"malformed", "partial"}
    /\ Exit("content_error")
    /\ UNCHANGED <<disk, bak>>

\* api_response is not read after line 378 and is dropped here
FilterServers ==
    /\ pc = "filter"
    /\ filter_valid_servers(api_response) # List(<<>>)
    /\ valid_servers' = filter_valid_servers(api_response)
    /\ api_response' = Absent
    /\ pc' = "merge"
    /\ UNCHANGED <<name_vars, runs, api_key, backup, disk, bak,
                   disk0, bak0, config, backed_up, updated_count, added_count, result>>

\* no valid record: sync returns False
FilterNoValid ==
    /\ pc = "filter"
    /\ filter_valid_servers(api_response) = List(<<>>)
    /\ Exit("no_valid")
    /\ UNCHANGED <<disk, bak>>

\* the loop of lines 391-414 over valid_servers
MergeServers ==
    /\ pc = "merge"
    /\ LET m == Merge(config, valid_servers.val) IN
        /\ config' = m.servers
        /\ updated_count' = m.updated
        /\ added_count' = m.added
    /\ pc' = "merged"
    /\ UNCHANGED <<name_vars, api_response, valid_servers, runs, api_key, backup,
                   disk, bak, disk0, bak0, backed_up, result>>

\* nothing changed: sync returns True without writing
NoChanges ==
    /\ pc = "merged"
    /\ updated_count = 0 /\ added_count = 0
    /\ Exit("up_to_date")
    /\ UNCHANGED <<disk, bak>>

\* mutant: the run goes on to the backup and the save whatever the counts
ChangesAlways ==
    /\ pc = "merged"
    /\ pc' = "backup"
    /\ UNCHANGED <<name_vars, api_response, valid_servers, runs, api_key, backup,
                   disk, bak, disk0, bak0, config, backed_up, updated_count,
                   added_count, result>>

\* something changed: the run goes on to the backup and the save
Changes ==
    /\ pc = "merged"
    /\ ~(updated_count = 0 /\ added_count = 0)
    /\ pc' = "backup"
    /\ UNCHANGED <<name_vars, api_response, valid_servers, runs, api_key, backup,
                   disk, bak, disk0, bak0, config, backed_up, updated_count,
                   added_count, result>>

BackupWanted == backup /\ disk.kind # "absent"

\* mutant: the backup is taken of the merged registry, not of the file
BackupCopyOfConfig ==
    /\ pc = "backup"
    /\ BackupWanted
    /\ bak' = JsonFile(config)
    /\ backed_up' = "ok"
    /\ pc' = "save"
    /\ UNCHANGED <<name_vars, api_response, valid_servers, runs, api_key, backup,
                   disk, disk0, bak0, config, updated_count, added_count, result>>

\* backup_config: shutil.copy2 succeeds
BackupCopy ==
    /\ pc = "backup"
    /\ BackupWanted
    /\ bak' = disk
    /\ backed_up' = "ok"
    /\ pc' = "save"
    /\ UNCHANGED <<name_vars, api_response, valid_servers, runs, api_key, backup,
                   disk, disk0, bak0, config, updated_count, added_count, result>>

\* backup_config: shutil.copy2 raises, before or while it writes; the
\* failure is printed and the run goes on
BackupFail ==
    /\ pc = "backup"
    /\ BackupWanted
    /\ bak' \in {bak, PartialFile(<<>>)}
    /\ backed_up' = "failed"
    /\ pc' = "save"
    /\ UNCHANGED <<name_vars, api_response, valid_servers, runs, api_key, backup,
                   disk, disk0, bak0, config, updated_count, added_count, result>>

\* --no-backup, or no file to back up
BackupSkip ==
    /\ pc = "backup"
    /\ ~BackupWanted
    /\ pc' = "save"
    /\ UNCHANGED <<name_vars, api_response, valid_servers, runs, api_key, backup,
                   disk, bak, disk0, bak0, config, backed_up, updated_count,
                   added_count, result>>

\* save_config: open(config_path, 'w') truncates the file
SaveOpen ==
    /\ pc = "save"
    /\ disk' = PartialFile(<<>>)
    /\ pc' = "dump"
    /\ UNCHANGED <<name_vars, api_response, valid_servers, runs, api_key, backup,
                   bak, disk0, bak0, config, backed_up, updated_count, added_count, result>>

\* save_config: makedirs or open raises: RuntimeError
SaveOpenFail ==
    /\ pc = "save"
    /\ Exit("save_error")
    /\ UNCHANGED <<disk, bak>>

\* save_config: json.dump writes the document and the file is closed
SaveDump ==
    /\ pc = "dump"
    /\ disk' = JsonFile(config)
    /\ Exit("saved")
    /\ UNCHANGED bak

\* save_config: a write of json.dump raises after k servers are on disk
SaveDumpFail ==
    /\ pc = "dump"
    /\ \E k \in 0..(Len(config) - 1) : disk' = PartialFile(SubSeq(config, 1, k))
    /\ Exit("save_error")
    /\ UNCHANGED bak

\* KeyboardInterrupt at any point of the run, caught by main()
Interrupt ==
    /\ pc \notin {"idle", "done"}
    /\ Exit("interrupted")
    /\ UNCHANGED <<disk, bak>>

\* KeyboardInterrupt while shutil.copy2 writes the backup
InterruptBackup ==
    /\ pc = "backup"
    /\ BackupWanted
    /\ bak' = PartialFile(<<>>)
    /\ Exit("interrupted")
    /\ UNCHANGED disk

Next ==
    \/ StartRun
    \/ ApiNoKey
    \/ ApiTransportError
    \/ ApiResponse
    \/ LoadConfig
    \/ LoadConfigMalformed
    \/ FilterServers
    \/ FilterNoValid
    \/ MergeServers
    \/ NoChanges
    \/ Changes
    \/ BackupCopy
    \/ BackupFail
    \/ BackupSkip
    \/ SaveOpen
    \/ SaveOpenFail
    \/ SaveDump
    \/ SaveDumpFail
    \/ Interrupt
    \/ InterruptBackup

Spec == Init /\ [][Next]_vars

----------------------------------------------------------------------------
(* Claims about the sync run (Spec) *)

\* the registry the run loaded: the file is not written before the save step
Before == disk.servers

Merged == pc = "merged"

\* C1 as stated: merging the same filtered catalog again into the merged
\* registry gives updatedCount = 0 and addedCount = 0 and leaves the server
\* list unchanged, for every catalog, also one in which records share a URL
\* with different names.  Stated for the merges that leave one entry per
\* http URL, so that a violation does not rest on a URL appended twice.
MergeIdempotent ==
    (Merged /\ UrlUnique(config)) =>
        LET again == Merge(config, valid_servers.val) IN
        /\ again.updated = 0
        /\ again.added = 0
        /\ again.servers = config

SameNamePerUrl(records) ==
    \A i, j \in 1..Len(records) :
        records[i].url = records[j].url => records[i].name = records[j].name

\* C1 amended: the second merge gives zero updates and zero additions and
\* leaves the server list unchanged whenever the records of the filtered
\* catalog that share a URL carry the same name.
MergeIdempotentSameNames ==
    (Merged /\ SameNamePerUrl(valid_servers.val)) =>
        LET again == Merge(config, valid_servers.val) IN
        /\ again.updated = 0
        /\ again.added = 0
        /\ again.servers = config

\* a first merge that changed the registry, with two records sharing a URL
MergeIdempotentWitness ==
    /\ Merged
    /\ SameNamePerUrl(valid_servers.val)
    /\ updated_count + added_count >= 1
    /\ \E i, j \in 1..Len(valid_servers.val) :
          i < j /\ valid_servers.val[i].url = valid_servers.val[j].url

\* C2: after any merge no two entries of the server list whose transport
\* type is "http" hold the same URL, in memory and in the saved file.
UrlUniqueAfterMerge ==
    /\ pc \in {"merged", "backup", "save", "dump"} => UrlUnique(config)
    /\ disk.kind = "json" => UrlUnique(disk.servers)

\* C3: every entry present before the merge is still at its position; only
\* the name of an http entry whose URL is an incoming URL can differ; id,
\* enabled and transport never change; entries with another transport type
\* or without transport are unchanged; new entries are appended at the end.
AppendUpdateOnly ==
    Merged =>
        /\ Len(config) >= Len(Before)
        /\ \A i \in 1..Len(Before) :
              /\ config[i].id = Before[i].id
              /\ config[i].enabled = Before[i].enabled
              /\ config[i].transport = Before[i].transport
              /\ config[i].name # Before[i].name =>
                    /\ IsHttp(Before[i])
                    /\ \E k \in 1..Len(valid_servers.val) :
                          valid_servers.val[k].url = Before[i].transport.url
              /\ ~IsHttp(Before[i]) => config[i] = Before[i]

\* a merge that renamed an http entry and appended one, while a non-http
\* entry with an incoming URL and an entry without transport were present
AppendUpdateOnlyWitness ==
    /\ Merged
    /\ updated_count = 1
    /\ added_count = 1
    /\ \E i \in 1..Len(Before) :
          /\ Before[i].transport.type = "sse"
          /\ \E k \in 1..Len(valid_servers.val) :
                valid_servers.val[k].url = Before[i].transport.url

HttpUrls(servers) == {servers[i].transport.url : i \in {j \in 1..Len(servers) : IsHttp(servers[j])}}

\* the name stored under the URL of record i when record i is processed:
\* that of the last earlier record with this URL, else that of the last
\* http entry of the loaded registry with this URL
StoredName(servers, records, i) ==
    LET earlier == {j \in 1..(i - 1) : records[j].url = records[i].url}
        held == {j \in 1..Len(servers) :
                    IsHttp(servers[j]) /\ servers[j].transport.url = records[i].url}
    IN  IF earlier # {}
        THEN records[CHOOSE j \in earlier : \A k \in earlier : k <= j].name
        ELSE servers[CHOOSE j \in held : \A k \in held : k <= j].name

CountedUpdates(servers, records) ==
    {i \in 1..Len(records) :
        /\ records[i].url \in HttpUrls(servers)
        /\ records[i].name # StoredName(servers, records, i)}

\* C4: updatedCount is the number of incoming records whose URL was in the
\* index and whose name differed from the stored name when processed;
\* addedCount is the length of the server list after the merge minus its
\* length before; one entry {x, Old} merged with [{New, x}, {Fresh, y}] gives
\* 1 and 1 and two http entries, the first renamed to New with its id.
MergeCounting ==
    Merged =>
        /\ updated_count = Cardinality(CountedUpdates(Before, valid_servers.val))
        /\ added_count = Len(config) - Len(Before)
        /\ ( /\ Len(Before) = 1
             /\ Before[1].name = Old /\ Before[1].transport = Http(UrlX)
             /\ valid_servers.val = <<[name |-> New, url |-> UrlX, id |-> Str(<<"@", "i">>)],
                                      [name |-> Fresh, url |-> UrlY, id |-> Str(<<"@", "i">>)]>> )
            => /\ updated_count = 1
               /\ added_count = 1
               /\ Len(config) = 2
               /\ config[1] = [Before[1] EXCEPT !.name = New]
               /\ config[2].transport = Http(UrlY)
               /\ config[2].name = Fresh
               /\ config[2].id # config[1].id

\* the example of the claim, and a record with an indexed URL and an
\* identical name elsewhere is covered by the same formula
MergeCountingWitness ==
    /\ Merged
    /\ Len(Before) = 1
    /\ Before[1].name = Old /\ Before[1].transport = Http(UrlX)
    /\ Len(valid_servers.val) = 2
    /\ valid_servers.val[1].name = New /\ valid_servers.val[1].url = UrlX
    /\ valid_servers.val[2].name = Fresh /\ valid_servers.val[2].url = UrlY
    /\ updated_count = 1
    /\ added_count = 1

Ended == pc = "done" /\ runs >= 1

\* C5: at every point at which a run can stop, the registry file is either
\* exactly its pre-sync content or a complete serialized document, never a
\* partially written one.
NoPartialWrite ==
    Ended => (disk = disk0 \/ disk.kind = "json")

Aborted == {"no_credential", "transport_error", "content_error", "no_valid"}

\* C6: when a run ends for a missing credential, a transport error, a
\* malformed local file or an empty filtered catalog, the registry file is
\* identical to its pre-run content (or still absent) and no backup file has
\* been written or overwritten.
AbortedRunLeavesFiles ==
    (Ended /\ result \in Aborted) =>
        /\ disk = disk0
        /\ bak = bak0
        /\ backed_up = "not_called"

\* a run over an existing registry and an existing backup that found no
\* valid record
AbortedRunWitness ==
    /\ Ended
    /\ result = "no_valid"
    /\ disk.kind = "json"
    /\ Len(disk.servers) >= 1
    /\ bak = StaleFile

\* the file existed before the run and the save step has opened it
Overwrites == disk0.kind # "absent" /\ disk # disk0

\* C7 as stated: in every run that overwrites an existing registry file the
\* backup holds the pre-sync content before the save step begins and when
\* the run has ended.
BackupBeforeOverwrite ==
    Overwrites => bak = disk0

\* C7 amended: in every run with backup enabled whose backup copy succeeded
\* and that overwrites an existing registry file, the backup holds the
\* pre-sync content before the save step begins and when the run has ended.
BackupBeforeOverwriteIfTaken ==
    /\ (Overwrites /\ backup /\ backed_up = "ok") => bak = disk0
    /\ (pc \in {"save", "dump"} /\ backup /\ disk0.kind # "absent") =>
          backed_up \in {"ok", "failed"}

\* a run that replaced an existing registry and clobbered a prior backup
BackupBeforeOverwriteWitness ==
    /\ Ended
    /\ result = "saved"
    /\ disk0.kind = "json"
    /\ disk.kind = "json"
    /\ disk # disk0
    /\ bak0 = StaleFile
    /\ backed_up = "ok"
    /\ bak = disk0

----------------------------------------------------------------------------
(* export_mcp_json_to_file *)

\* str.lower() on the letters of the model: every other character is kept
ToLower == [A |-> "a", B |-> "b", M |-> "m", S |-> "s"]

Lower(s) == [i \in 1..Len(s) |-> IF s[i] \in DOMAIN ToLower THEN ToLower[s[i]] ELSE s[i]]

\* str.isalnum() on one character
IsAlnum(c) == c \in {"a", "b", "e", "m", "r", "s", "v", "y", "1", "A", "B", "M", "S"}

KeepSlugChar(c) == IsAlnum(c) \/ c = "-"

\* the key of one record: lower(), the two replace() calls, then the join of
\* the characters that are alphanumeric or '-'
safe_name(name) ==
    LET replaced == Replace(Replace(Lower(name), " ", <<"-">>), "_", <<"-">>)
    IN  SelectSeq(replaced, KeepSlugChar)

\* str.endswith(suffix)
EndsWith(s, suffix) ==
    /\ Len(s) >= Len(suffix)
    /\ SubSeq(s, Len(s) - Len(suffix) + 1, Len(s)) = suffix

SseSuffix == <<"/", "s", "s", "e">>

SseUrlNoSlashCheck(url) ==
    IF ~EndsWith(url, SseSuffix)
    THEN (url \o <<"/">>) \o <<"s", "s", "e">>
    ELSE url

\* the two nested tests on the URL of one record
SseUrl(url) ==
    IF ~EndsWith(url, SseSuffix)
    THEN (IF ~EndsWith(url, <<"/">>) THEN url \o <<"/">> ELSE url) \o <<"s", "s", "e">>
    ELSE url

\* mcp_servers[safe_name] = {...}: a new key, or the value of an existing key
\* replaced
SetItem(mcp, key, value) ==
    [k \in DOMAIN mcp \cup {key} |-> IF k = key THEN value ELSE mcp[k]]

\* the loop over valid_servers, from the empty dict
RECURSIVE ExportLoop(_, _)
ExportLoop(mcp, records) ==
    IF records = <<>> THEN mcp
    ELSE LET server_info == Head(records) IN
         ExportLoop(SetItem(mcp, safe_name(server_info.name),
                            [type |-> "sse", url |-> SseUrl(server_info.url)]),
                    Tail(records))

----------------------------------------------------------------------------
(* SpecExport: one run of the command with --export-json *)

ExportNames ==
    {<<"M", "y", " ", "S", "e", "r", "v", "e", "r", "!">>,
     <<"A", " ", "b">>,
     <<"a", "_", "b">>,
     <<"a", "-", "B", "!">>,
     <<"a", "b">>,
     <<"!">>}

ExportUrls ==
    {<<"h", "/", "m">>,
     <<"h", "/">>,
     <<"h", "/", "s", "s", "e">>,
     <<"h", "/", "s", "s", "e", "/">>,
     <<"s", "s", "e">>,
     <<"/">>}

\* the remote records of an export: named ones with one endpoint, and one
\* whose name is null
ExportServices ==
    {RemoteService(n, u) : n \in ExportNames, u \in ExportUrls}
        \cup {[RemoteService(<<"a">>, <<"/">>) EXCEPT !.name = Null]}

ExportResponses == {Absent} \cup {List(s) : s \in SeqsUpTo(ExportServices, MaxExport)}

InitExport ==
    /\ service = NoService
    /\ resolved = Pending
    /\ mcp_servers = NotExported
    /\ api_response = Absent
    /\ valid_servers = Pending
    /\ NoSync

\* what an export never touches
export_frame == <<service, resolved, backup, disk, bak, disk0, bak0, config,
                  backed_up, updated_count, added_count>>

\* main(): the --export-json branch, with or without a token
StartExport ==
    /\ pc = "idle"
    /\ runs' = runs + 1
    /\ api_key' \in BOOLEAN
    /\ pc' = "export_api"
    /\ UNCHANGED <<export_frame, mcp_servers, api_response, valid_servers, result>>

\* the except clause of export_mcp_json_to_file: the function returns False
ExportFails ==
    /\ pc' = "done"
    /\ result' = "export_failed"
    /\ UNCHANGED <<export_frame, runs, api_key, api_response>>

\* call_modelscope_api raises ValueError: no token
ExportApiNoKey ==
    /\ pc = "export_api"
    /\ ~api_key
    /\ ExportFails
    /\ UNCHANGED <<mcp_servers, valid_servers>>

\* call_modelscope_api raises RuntimeError: the request failed
ExportApiTransportError ==
    /\ pc = "export_api"
    /\ api_key
    /\ ExportFails
    /\ UNCHANGED <<mcp_servers, valid_servers>>

ExportApiResponse ==
    /\ pc = "export_api"
    /\ api_key
    /\ api_response' \in ExportResponses
    /\ pc' = "export_filter"
    /\ UNCHANGED <<export_frame, runs, api_key, mcp_servers, valid_servers, result>>

\* filter_valid_servers raises on a record
ExportFilterRaises ==
    /\ pc = "export_filter"
    /\ filter_valid_servers(api_response).tag = "raise"
    /\ ExportFails
    /\ UNCHANGED <<mcp_servers, valid_servers>>

\* no valid server: the function returns False before building the dict
ExportNoValid ==
    /\ pc = "export_filter"
    /\ filter_valid_servers(api_response) = List(<<>>)
    /\ valid_servers' = List(<<>>)
    /\ ExportFails
    /\ UNCHANGED mcp_servers

\* the loop that builds mcp_servers and output_data
ExportRender ==
    /\ pc = "export_filter"
    /\ LET valid == filter_valid_servers(api_response) IN
        /\ valid.tag = "list"
        /\ valid.val # <<>>
        /\ valid_servers' = valid
        /\ mcp_servers' = Obj(ExportLoop(<<>>, valid.val))
    /\ pc' = "export_write"
    /\ UNCHANGED <<export_frame, runs, api_key, api_response, result>>

\* output_data is written to output_path: the function returns True
ExportWrite ==
    /\ pc = "export_write"
    /\ pc' = "done"
    /\ result' = "exported"
    /\ UNCHANGED <<export_frame, runs, api_key, api_response, mcp_servers, valid_servers>>

\* makedirs, open or json.dump raises
ExportWriteFails ==
    /\ pc = "export_write"
    /\ ExportFails
    /\ UNCHANGED <<mcp_servers, valid_servers>>

\* KeyboardInterrupt during the export, caught by main()
ExportInterrupt ==
    /\ pc \in {"export_api", "export_filter", "export_write"}
    /\ pc' = "done"
    /\ result' = "interrupted"
    /\ UNCHANGED <<export_frame, runs, api_key, api_response, mcp_servers, valid_servers>>

NextExport ==
    \/ StartExport
    \/ ExportApiNoKey
    \/ ExportApiTransportError
    \/ ExportApiResponse
    \/ ExportFilterRaises
    \/ ExportNoValid
    \/ ExportRender
    \/ ExportWrite
    \/ ExportWriteFails
    \/ ExportInterrupt

SpecExport == InitExport /\ [][NextExport]_vars

----------------------------------------------------------------------------
(* Claims about the export (SpecExport) *)

\* what one character of a name contributes to the slug
ClaimedSlugChar(c) ==
    CASE c \in {" ", "_", "-"} -> <<"-">>
      [] c \in {"A", "B", "M", "S"} -> <<ToLower[c]>>
      [] c \in {"a", "b", "e", "m", "r", "s", "v", "y", "1"} -> <<c>>
      [] OTHER -> <<>>

RECURSIVE ClaimedSlug(_)
ClaimedSlug(name) ==
    IF name = <<>> THEN <<>>
    ELSE ClaimedSlugChar(Head(name)) \o ClaimedSlug(Tail(name))

\* N(u) of the claim
ClaimedSseUrl(u) ==
    CASE EndsWith(u, <<"/", "s", "s", "e">>) -> u
      [] ~EndsWith(u, <<"/", "s", "s", "e">>) /\ EndsWith(u, <<"/">>) -> u \o <<"s", "s", "e">>
      [] OTHER -> u \o <<"/", "s", "s", "e">>

\* the position of the last record whose slug is s
LastWithSlug(records, s) ==
    CHOOSE i \in DOMAIN records :
        /\ ClaimedSlug(records[i].name) = s
        /\ \A j \in DOMAIN records : j > i => ClaimedSlug(records[j].name) # s

\* C11: the exported mcpServers mapping has one key per distinct slug of the
\* filtered records (name lower-cased, spaces and underscores turned into
\* hyphens, every character that is neither alphanumeric nor a hyphen
\* removed); the value under slug s is {type: "sse", url: N(u)} for the URL u
\* of the last record whose slug is s, where N leaves a URL ending in "/sse",
\* appends "sse" after a trailing "/" and "/sse" otherwise; every exported
\* URL ends in "/sse" and N(N(u)) = N(u).
ExportRendering ==
    mcp_servers.tag = "obj" =>
        LET records == valid_servers.val
            exported == mcp_servers.val
            slugs == {ClaimedSlug(records[i].name) : i \in DOMAIN records}
        IN  /\ DOMAIN exported = slugs
            /\ \A s \in slugs :
                /\ exported[s] = [type |-> "sse",
                                  url |-> ClaimedSseUrl(records[LastWithSlug(records, s)].url)]
                /\ EndsWith(exported[s].url, <<"/", "s", "s", "e">>)
            /\ \A i \in DOMAIN records :
                ClaimedSseUrl(ClaimedSseUrl(records[i].url)) = ClaimedSseUrl(records[i].url)

\* two records with different names and URLs share the slug "a-b": the export
\* has that one key, with the second record's URL "h/" rendered as "h/sse"
ExportRenderingWitness ==
    /\ mcp_servers.tag = "obj"
    /\ valid_servers.val[1].name = <<"A", " ", "b">>
    /\ valid_servers.val[1].url = <<"h", "/", "m">>
    /\ Len(valid_servers.val) = 2
    /\ valid_servers.val[2].name = <<"a", "_", "b">>
    /\ valid_servers.val[2].url = <<"h", "/">>
    /\ DOMAIN mcp_servers.val = {<<"a", "-", "b">>}
    /\ mcp_servers.val[<<"a", "-", "b">>].url = <<"h", "/", "s", "s", "e">>
    /\ result = "exported"

----------------------------------------------------------------------------
(* Further claims about the sync run (Spec) *)

\* the positions of the filtered records whose URL is u
RecordsWithUrl(records, u) == {i \in 1..Len(records) : records[i].url = u}

\* the URLs that several filtered records share under different names
DuplicatedUrls(records) ==
    {u \in {records[i].url : i \in 1..Len(records)} :
        \E i, j \in RecordsWithUrl(records, u) : records[i].name # records[j].name}

LastName(records, u) ==
    LET with == RecordsWithUrl(records, u)
    IN  records[CHOOSE i \in with : \A j \in with : j <= i].name

\* C12: when the filtered catalog holds several records with the same URL and
\* different names, then after the merge the registry's http entry for that
\* URL carries the name of the last such record in catalog order, whether the
\* URL was in the registry before the merge or is first inserted in this pass.
LastDuplicateWins ==
    Merged =>
        \A u \in DuplicatedUrls(valid_servers.val) :
            \A i \in 1..Len(config) :
                (IsHttp(config[i]) /\ config[i].transport.url = u)
                    => config[i].name = LastName(valid_servers.val, u)

\* the merge has ended with updatedCount = 0 and addedCount = 0
NothingChanged == Merged /\ updated_count = 0 /\ added_count = 0

\* C13: a run whose merge ends with updatedCount = 0 and addedCount = 0
\* returns success without the backup step or the save step, so the registry
\* file and the backup file are left as they were (a registry missing before
\* the run is still missing); the backup and save steps are reached, and
\* either file is written, only in runs with updatedCount + addedCount >= 1.
WritesOnlyOnChange ==
    /\ []((Ended /\ result = "up_to_date") =>
            (disk = disk0 /\ bak = bak0 /\ backed_up = "not_called"))
    /\ [](pc \in {"backup", "save", "dump"} => updated_count + added_count >= 1)
    /\ [][NothingChanged =>
            (pc' = "done" /\ result' \in {"up_to_date", "interrupted"}
                /\ disk' = disk /\ bak' = bak)]_vars
    /\ [][(disk' # disk \/ bak' # bak) => updated_count + added_count >= 1]_vars

\* a run with backups enabled over an existing registry and an existing
\* backup file that found every remote record already registered under its
\* name
WritesOnlyOnChangeWitness ==
    /\ Ended
    /\ result = "up_to_date"
    /\ backup
    /\ disk.kind = "json"
    /\ Len(disk.servers) >= 1
    /\ bak = StaleFile

====
